---- MODULE Spec2Model ----
(***************************************************************************)
(* A model of `git lfs fsck` (commands/command_fsck.go).                   *)
(*                                                                         *)
(* One run of fsckCommand is a sequential process.  Its position is pc:    *)
(*   "start"     before scan-range resolution (line 49)                    *)
(*   "scanRef"   inside gitscanner.ScanRef / ScanRefRange (lines 141-149)  *)
(*   "scanIndex" inside gitscanner.ScanIndex (lines 151-155)               *)
(*   "scanTree"  inside ScanRefByTree / ScanRefRangeByTree (194-202)       *)
(*   "decide"    at line 92, all requested passes have returned            *)
(*   "rename"    inside the loop of lines 108-113                          *)
(*   "exit"      the process has terminated with exitCode                  *)
(* The git scanner, ref resolution, the object path layout and the exit    *)
(* helpers are collaborators that are not part of command_fsck.go; they    *)
(* are modelled by their contract.                                         *)
(***************************************************************************)
EXTENDS Integers, Sequences, FiniteSets, TLC

\* Bound: the scanner makes at most MaxRecords callbacks during one run.
MaxRecords == 2

(***************************************************************************)
(* Values                                                                  *)
(***************************************************************************)

\* File contents are byte strings; the model keeps the short ones.
Contents == {<<>>, <<0>>, <<1>>}

\* sha256.New() / io.Copy / hex.EncodeToString(Sum(nil)): the digest of a
\* byte string.  The model digest reads every byte and is collision free
\* on Contents (as SHA-256 is assumed to be): 1, then h -> 2h + b per byte.
RECURSIVE Sha256From(_, _)
Sha256From(h, bytes) ==
    IF bytes = <<>> THEN h
    ELSE Sha256From(2 * h + Head(bytes), Tail(bytes))

Sha256(bytes) == Sha256From(1, bytes)

\* The content hashes that pointers of the repository declare.
Oids == {Sha256(<<0>>), Sha256(<<1>>)}

\* The byte sizes that pointers of the repository declare.
Sizes == {0, 1}

\* Paths of the work tree.
Names == {"a.dat", "x.dat"}

\* cfg.FetchExcludePaths(): the lfs.fetchexclude setting of the repository.
FetchExcludePaths == {"x.dat"}

\* The blob id git gives to a pointer file: a function of the pointer text,
\* which is fixed by the oid, the size and whether the text is canonical.
GitBlobSha(oid, size, canonical) ==
    100 + 4 * oid + 2 * size + (IF canonical THEN 1 ELSE 0)

\* lfs.WrappedPointer values the scanner can hand to a callback.
WrappedPointers ==
    { [Name |-> nm, Oid |-> o, Size |-> s, Canonical |-> c,
       Sha1 |-> GitBlobSha(o, s, c)] :
         nm \in Names, o \in Oids, s \in Sizes, c \in BOOLEAN }

\* The nil *lfs.WrappedPointer.
NilPointer ==
    [Name |-> "", Oid |-> 0, Size |-> 0, Canonical |-> FALSE, Sha1 |-> 0]

\* Errors a scanner callback can carry:
\*   "nil"     no error;
\*   "psErr"   an errors.PointerScanError value (tree entry is not a pointer);
\*   "other"   any other error.
NilError == [kind |-> "nil", oid |-> "", path |-> ""]

\* Files: absent, or present as
\*   "file"    a readable file holding data,
\*   "noperm"  a file that cannot be opened (permission denied),
\*   "ioerr"   a file that opens but fails while being read.
AbsentFile == [kind |-> "absent", data |-> <<>>]

\* A file that an earlier run left in the quarantine directory.
OldBadFile == [kind |-> "file", data |-> <<>>]

FileStates ==
    { [kind |-> k, data |-> <<>>] : k \in {"absent", "noperm", "ioerr"} }
      \cup { [kind |-> "file", data |-> c] : c \in Contents }

\* cfg.Filesystem().ObjectPathname(oid): the store path of a content hash.
ObjectPathname(oid) == <<"objects", oid>>

\* filepath.Join(badDir, oid) with badDir = <LFSStorageDir>/bad.
BadFile(oid) == <<"bad", oid>>

Paths == { ObjectPathname(o) : o \in Oids } \cup { BadFile(o) : o \in Oids }

\* Commits and the refs of the repository.
HeadSha == "c2"

\* Command lines: a ref expression is a sequence of tokens, ".." being the
\* range separator.
ArgLists ==
    { <<>>,
      << <<"v1">> >>,
      << <<"v1", "..", "main">> >>,
      << <<"..", "main">> >>,
      << <<"nope">> >>,
      << <<"v1">>, <<"main">> >> }

VARIABLES
    argv,            \* the positional arguments of the command line
    currentRefOk,    \* git.CurrentRef() succeeds (called at line 56 only)
    pc,              \* position of the run
    scan,            \* the scanner call in progress
    fsckDryRun,      \* --dry-run
    fsckObjects,     \* --objects (package variable, line 22)
    fsckPointers,    \* --pointers (package variable, line 23)
    useIndex,        \* line 49
    start,           \* line 50
    end,             \* line 51
    ok,              \* line 80
    corruptOids,     \* line 81 / 119
    corruptPointers, \* line 82 / 163
    fs,              \* the files of the object store and of the bad dir
    badDir,          \* the quarantine directory: "absent", "dir", "blocked"
    out,             \* lines printed so far
    exitCode,        \* process exit status, -1 while running
    fatal,           \* which fatal exit was taken, "none" otherwise
    cb,              \* the record the open scanner handled last, and its verdict
    n,               \* callbacks made so far
    i,               \* index of the rename loop
    fs0,             \* fs when the run started
    badDir0          \* badDir when the run started

vars == <<argv, currentRefOk, pc, scan, fs0, badDir0, fsckDryRun, fsckObjects, fsckPointers, useIndex, start, end, ok,
          corruptOids, corruptPointers, fs, badDir, out, exitCode, fatal,
          cb, n, i>>

\* No scanner call is in progress.
NoScan == [fn |-> "", from |-> "", to |-> ""]

\* No scanner is open.
NoCallback == [pass |-> "none", hasP |-> FALSE, p |-> NilPointer,
               err |-> NilError, verdict |-> "none"]

(***************************************************************************)
(* Printed lines                                                           *)
(***************************************************************************)
Line(text, name, oid, blob, detail) ==
    [text |-> text, name |-> name, oid |-> oid, blob |-> blob, detail |-> detail]

OkLine == Line("Git LFS fsck OK", "", 0, 0, "")

RepairLine == Line("objects: repair: moving corrupt objects to", "", 0, 0, "bad")

(***************************************************************************)
(* fsckPointer, lines 208-241                                              *)
(***************************************************************************)

\* os.Open(path): "nil" on success, else the cause carried by the
\* *os.PathError that os.Open returns for every failure.
OsOpen(files, path) ==
    IF files[path].kind = "absent" THEN "ENOENT"
    ELSE IF files[path].kind = "noperm" THEN "EACCES"
    ELSE "nil"

\* An io.Copy whose error is dropped: the digest of the partial read.
IoCopyNoError(files, path) ==
    IF files[path].kind = "ioerr"
    THEN [sum |-> 0, err |-> "nil"]
    ELSE [sum |-> Sha256(files[path].data), err |-> "nil"]

\* io.Copy(oidHash, f): the digest of what was read, and the read error.
IoCopy(files, path) ==
    IF files[path].kind = "ioerr"
    THEN [sum |-> 0, err |-> "EIO"]
    ELSE [sum |-> Sha256(files[path].data), err |-> "nil"]

\* Result of fsckPointer: (pointerOk, err), the printed lines and the
\* classification of the object.
FsckResult(pointerOk, err, lines, verdict) ==
    [ok |-> pointerOk, err |-> err, lines |-> lines, verdict |-> verdict]

\* An open failure that prints its line before it looks at the size.
OpenFailedNoisy(name, oid, size, cause) ==
    IF size = 0
    THEN FsckResult(TRUE, "nil",
                    << Line("objects: openError", name, oid, 0, cause) >>,
                    "OK")
    ELSE FsckResult(FALSE, "nil",
                    << Line("objects: openError", name, oid, 0, cause) >>,
                    "openError")

\* Lines 214-221: os.Open failed with a *os.PathError.
OpenFailed(name, oid, size, cause) ==
    IF size = 0
    THEN FsckResult(TRUE, "nil", <<>>, "OK")
    ELSE FsckResult(FALSE, "nil",
                    << Line("objects: openError", name, oid, 0, cause) >>,
                    "openError")

\* A comparison that also wants a non-zero declared size.
DigestMatchesSized(recalculatedOid, oid, size) ==
    recalculatedOid = oid /\ size # 0

\* Lines 234-240: the comparison of the recomputed digest with the oid.
DigestMatches(recalculatedOid, oid, size) == recalculatedOid = oid

\* Lines 227-240: the file was opened.
Opened(files, name, oid, size) ==
    LET copy == IoCopy(files, ObjectPathname(oid)) IN
    IF copy.err # "nil"
    THEN FsckResult(FALSE, copy.err, <<>>, "readError")
    ELSE IF DigestMatches(copy.sum, oid, size)
    THEN FsckResult(TRUE, "nil", <<>>, "OK")
    ELSE FsckResult(FALSE, "nil",
                    << Line("objects: corruptObject", name, oid, 0, "") >>,
                    "corruptObject")

fsckPointer(files, name, oid, size) ==
    LET cause == OsOpen(files, ObjectPathname(oid)) IN
    IF cause # "nil"
    THEN OpenFailed(name, oid, size, cause)
    ELSE Opened(files, name, oid, size)

(***************************************************************************)
(* Init                                                                    *)
(***************************************************************************)
Init ==
    /\ argv \in ArgLists
    /\ currentRefOk \in BOOLEAN
    /\ (Len(argv) # 0) => currentRefOk
    /\ pc = "start"
    /\ scan = NoScan
    /\ fsckDryRun \in BOOLEAN
    /\ fsckObjects \in BOOLEAN
    /\ fsckPointers \in BOOLEAN
    /\ useIndex = FALSE
    /\ start = ""
    /\ end = "HEAD"
    /\ ok = TRUE
    /\ corruptOids = <<>>
    /\ corruptPointers = <<>>
    /\ badDir \in {"absent", "dir", "blocked"}
    /\ fs \in { f \in [Paths -> FileStates] :
                  \E old \in {AbsentFile, OldBadFile} :
                     \A o \in Oids :
                        /\ f[BadFile(o)] = old
                        /\ (badDir # "dir") => (old = AbsentFile) }
    /\ fs0 = fs
    /\ badDir0 = badDir
    /\ out = <<>>
    /\ exitCode = -1
    /\ fatal = "none"
    /\ cb = NoCallback
    /\ n = 0
    /\ i = 1


(***************************************************************************)
(* Collaborators of fsckCommand                                            *)
(***************************************************************************)

\* ExitWithError(err) and Panic(err, ...): print the error and terminate the
\* process with the status of a fatal error.
FatalStatus == 2

\* git.ResolveRef(name): the commit of a ref name, "" when it does not
\* resolve.
ResolveRef(name) ==
    IF name = <<"v1">> THEN "c1"
    ELSE IF name = <<"main">> \/ name = <<"HEAD">> THEN HeadSha
    ELSE ""

\* git.ResolveRefs(names): one commit per name, or an error when a name
\* does not resolve.
ResolveRefs(names) ==
    IF \E k \in 1..Len(names) : ResolveRef(names[k]) = ""
    THEN [err |-> TRUE, refs |-> <<>>]
    ELSE [err |-> FALSE, refs |-> [k \in 1..Len(names) |-> ResolveRef(names[k])]]

\* strings.SplitN(s, "..", 2): split at the first "..".
SplitN2(s) ==
    IF \E k \in 1..Len(s) : s[k] = ".."
    THEN LET k == CHOOSE j \in 1..Len(s) :
                     /\ s[j] = ".."
                     /\ \A m \in 1..(j - 1) : s[m] # ".."
         IN << SubSeq(s, 1, k - 1), SubSeq(s, k + 1, Len(s)) >>
    ELSE << s >>

\* filepathfilter.New(nil, exclude).Allows(name).
Allows(exclude, name) == name \notin exclude

(***************************************************************************)
(* fsckCommand, lines 45-115                                               *)
(***************************************************************************)

\* A range resolution that goes on with the defaults when the ref
\* expression does not resolve.
ScanRangeIgnoreErr(args, headOk) ==
    IF Len(args) = 0
    THEN [err |-> FALSE, useIndex |-> TRUE, start |-> "", end |-> HeadSha]
    ELSE IF Len(args) = 1
    THEN LET r == ResolveRefs(SplitN2(args[1])) IN
         IF r.err
         THEN [err |-> FALSE, useIndex |-> FALSE, start |-> "", end |-> "HEAD"]
         ELSE IF Len(r.refs) = 2
         THEN [err |-> FALSE, useIndex |-> FALSE,
               start |-> r.refs[1], end |-> r.refs[2]]
         ELSE [err |-> FALSE, useIndex |-> FALSE,
               start |-> "", end |-> r.refs[1]]
    ELSE [err |-> FALSE, useIndex |-> FALSE, start |-> "", end |-> "HEAD"]

\* Lines 53-73: the scan range of the argument list.  headOk tells whether
\* git.CurrentRef() succeeds.
ScanRange(args, headOk) ==
    IF Len(args) = 0
    THEN IF headOk
         THEN [err |-> FALSE, useIndex |-> TRUE, start |-> "", end |-> HeadSha]
         ELSE [err |-> TRUE, useIndex |-> TRUE, start |-> "", end |-> "HEAD"]
    ELSE IF Len(args) = 1
    THEN LET r == ResolveRefs(SplitN2(args[1])) IN
         IF r.err
         THEN [err |-> TRUE, useIndex |-> FALSE, start |-> "", end |-> "HEAD"]
         ELSE IF Len(r.refs) = 2
         THEN [err |-> FALSE, useIndex |-> FALSE,
               start |-> r.refs[1], end |-> r.refs[2]]
         ELSE [err |-> FALSE, useIndex |-> FALSE,
               start |-> "", end |-> r.refs[1]]
    ELSE [err |-> FALSE, useIndex |-> FALSE, start |-> "", end |-> "HEAD"]

\* A defaulting that runs both passes whatever the flags say.
DefaultPassesAlways(objects, pointers) ==
    [objects |-> TRUE, pointers |-> TRUE]

\* Lines 75-78: with neither --objects nor --pointers, both passes run.
DefaultPasses(objects, pointers) ==
    IF ~pointers /\ ~objects
    THEN [objects |-> TRUE, pointers |-> TRUE]
    ELSE [objects |-> objects, pointers |-> pointers]

\* A line 97 that forgets --dry-run.
SkipRelocationNoDryRun(dryRun, oids) == Len(oids) = 0

\* A line 97 that forgets the pointer-only case.
SkipRelocationDryRunOnly(dryRun, oids) == dryRun

\* Line 97: relocation is skipped.
SkipRelocation(dryRun, oids) == dryRun \/ Len(oids) = 0

\* A doFsckObjects that attaches an empty filter.
ObjectsFilterEmpty == {}

\* Line 139: the filter doFsckObjects attaches to its scanner.
ObjectsFilter == FetchExcludePaths

\* A line 167 that only reports pointers of non-empty objects.
NotCanonicalNonEmpty(p) == ~p.Canonical /\ p.Size # 0

\* Line 167: the pointer is reported as not canonical.
NotCanonical(p) == ~p.Canonical

\* A history scan that never uses the ranged scan.
RefScanNoRange(from, to) == [fn |-> "ScanRef", from |-> "", to |-> to]

\* Lines 141-149: the history scan of the object pass.
RefScan(from, to) ==
    IF from = ""
    THEN [fn |-> "ScanRef", from |-> "", to |-> to]
    ELSE [fn |-> "ScanRefRange", from |-> from, to |-> to]

\* Line 152: the index scan of the object pass.
IndexScan == [fn |-> "ScanIndex", from |-> "", to |-> "HEAD"]

\* A pointer pass that scans the index.
TreeScanIndex(from, to) == IndexScan

\* Lines 194-202: the scan of the pointer pass.
TreeScan(from, to) ==
    IF from = ""
    THEN [fn |-> "ScanRefByTree", from |-> "", to |-> to]
    ELSE [fn |-> "ScanRefRangeByTree", from |-> from, to |-> to]

\* The process terminates.
Exit(code, site) ==
    /\ pc' = "exit"
    /\ exitCode' = code
    /\ fatal' = site

\* A command that decides right after the object pass.
AfterObjectsDecide == "decide"

\* The position after doFsckObjects has returned (lines 85-90).
AfterObjects == IF fsckPointers THEN "scanTree" ELSE "decide"

\* Lines 46-83: resolve the scan range, default the passes and enter the
\* first requested pass.
Resolve ==
    /\ pc = "start"
    /\ LET r == ScanRange(argv, currentRefOk)
           d == DefaultPasses(fsckObjects, fsckPointers)
       IN    /\ useIndex' = r.useIndex
             /\ start' = r.start
             /\ end' = r.end
             /\ IF r.err
                THEN /\ Exit(FatalStatus, "resolve")
                     /\ UNCHANGED <<fsckObjects, fsckPointers, scan>>
                ELSE /\ fsckObjects' = d.objects
                     /\ fsckPointers' = d.pointers
                     /\ pc' = IF d.objects THEN "scanRef" ELSE "scanTree"
                     /\ scan' = IF d.objects
                                THEN RefScan(r.start, r.end)
                                ELSE TreeScan(r.start, r.end)
                     /\ UNCHANGED <<exitCode, fatal>>
    /\ UNCHANGED <<argv, currentRefOk, fs0, badDir0, fsckDryRun, ok, corruptOids, corruptPointers, fs, badDir,
                   out, cb, n, i>>

(***************************************************************************)
(* doFsckObjects, lines 118-159                                            *)
(***************************************************************************)

\* Lines 120-132: the callback of the object pass, called with (p, nil).
ObjectsFound(p) ==
    LET r == fsckPointer(fs, p.Name, p.Oid, p.Size) IN
    /\ corruptOids' = IF ~r.ok THEN Append(corruptOids, p.Oid) ELSE corruptOids
    /\ out' = out \o r.lines
    /\ cb' = [pass |-> "objects", hasP |-> TRUE, p |-> p, err |-> NilError,
              verdict |-> r.verdict]
    /\ IF r.err # "nil"
       THEN Exit(FatalStatus, "read")
       ELSE UNCHANGED <<pc, exitCode, fatal>>

\* The scanner of the object pass meets a pointer: it calls back unless the
\* filter excludes the path (cb then records the pointer as "filtered").
ScanBlobs ==
    /\ pc \in {"scanRef", "scanIndex"}
    /\ n < MaxRecords
    /\ n' = n + 1
    /\ \E p \in WrappedPointers :
         IF Allows(ObjectsFilter, p.Name)
         THEN ObjectsFound(p)
         ELSE /\ cb' = [pass |-> "filtered", hasP |-> TRUE, p |-> p,
                        err |-> NilError, verdict |-> "none"]
              /\ UNCHANGED <<pc, exitCode, fatal, corruptOids, out>>
    /\ UNCHANGED <<argv, currentRefOk, scan, fs0, badDir0, fsckDryRun, fsckObjects, fsckPointers, useIndex, start, end,
                   ok, corruptPointers, fs, badDir, i>>

\* Lines 129-131: the scanner calls back with (nil, err).
ScanBlobsError ==
    /\ pc \in {"scanRef", "scanIndex"}
    /\ n < MaxRecords
    /\ n' = n + 1
    /\ cb' = [pass |-> "objects", hasP |-> FALSE, p |-> NilPointer,
              err |-> [kind |-> "other", oid |-> "", path |-> ""],
              verdict |-> "none"]
    /\ Exit(FatalStatus, "scan")
    /\ UNCHANGED <<argv, currentRefOk, scan, fs0, badDir0, fsckDryRun, fsckObjects, fsckPointers, useIndex, start, end,
                   ok, corruptOids, corruptPointers, fs, badDir, out, i>>

\* Lines 142-154: ScanRef, ScanRefRange or ScanIndex returns an error.
ScanBlobsFails ==
    /\ pc \in {"scanRef", "scanIndex"}
    /\ Exit(FatalStatus, "scan")
    /\ UNCHANGED <<argv, currentRefOk, scan, fs0, badDir0, fsckDryRun, fsckObjects, fsckPointers, useIndex, start, end,
                   ok, corruptOids, corruptPointers, fs, badDir, out, cb, n, i>>

\* Lines 141-151: ScanRef or ScanRefRange returns nil and the index is
\* scanned next.
ScanRefDone ==
    /\ pc = "scanRef"
    /\ useIndex
    /\ pc' = "scanIndex"
    /\ scan' = IndexScan
    /\ UNCHANGED <<argv, currentRefOk, fs0, badDir0, fsckDryRun, fsckObjects, fsckPointers, useIndex, start, end,
                   ok, corruptOids, corruptPointers, fs, badDir, out,
                   exitCode, fatal, cb, n, i>>

\* Lines 151-158 and 84-86: the last scan of the object pass returns nil,
\* the scanner is closed and doFsckObjects returns.
ObjectsDone ==
    /\ \/ pc = "scanRef" /\ ~useIndex
       \/ pc = "scanIndex"
    /\ ok' = (ok /\ Len(corruptOids) = 0)
    /\ cb' = NoCallback
    /\ pc' = AfterObjects
    /\ scan' = IF fsckPointers THEN TreeScan(start, end) ELSE NoScan
    /\ UNCHANGED <<argv, currentRefOk, fs0, badDir0, fsckDryRun, fsckObjects, fsckPointers, useIndex, start, end,
                   corruptOids, corruptPointers, fs, badDir, out,
                   exitCode, fatal, n, i>>

(***************************************************************************)
(* doFsckPointers, lines 162-206                                           *)
(***************************************************************************)

\* Lines 168-173: the corruptPointer of a pointer that is not canonical.
NonCanonicalPointer(p) ==
    [blobOid |-> p.Sha1, treeOid |-> "", lfsOid |-> p.Oid, path |-> "",
     kind |-> "nonCanonicalPointer"]

\* Lines 180-185: the corruptPointer of a tree entry that is not a pointer.
UnexpectedGitObject(err) ==
    [blobOid |-> 0, treeOid |-> err.oid, lfsOid |-> 0, path |-> err.path,
     kind |-> "unexpectedGitObject"]

\* Line 174 / 186: Print("pointer: %s", cp.String()).
PointerLine(cp) ==
    Line("pointer: " \o cp.kind, cp.path, cp.lfsOid, cp.blobOid, cp.treeOid)

\* errors.IsPointerScanError(err): err is a PointerScanError.
IsPointerScanError(err) == err.kind = "psErr"

\* A type assertion that never succeeds.
AsPointerScanErrorNever(err) == FALSE

\* Line 178: the type assertion err.(errors.PointerScanError).
AsPointerScanError(err) == err.kind = "psErr"

\* Lines 164-192: the callback of the pointer pass, called with (p, err);
\* hasP tells whether p is not nil.
PointersFound(hasP, p, err) ==
    LET report(cp, verdict) ==
            /\ out' = Append(out, PointerLine(cp))
            /\ corruptPointers' = Append(corruptPointers, cp)
            /\ cb' = [pass |-> "pointers", hasP |-> hasP, p |-> p, err |-> err,
                      verdict |-> verdict]
            /\ UNCHANGED <<pc, exitCode, fatal>>
        pass(verdict) ==
            /\ cb' = [pass |-> "pointers", hasP |-> hasP, p |-> p, err |-> err,
                      verdict |-> verdict]
            /\ UNCHANGED <<out, corruptPointers, pc, exitCode, fatal>>
    IN
    IF hasP
    THEN IF NotCanonical(p)
         THEN report(NonCanonicalPointer(p), "nonCanonicalPointer")
         ELSE pass("OK")
    ELSE IF IsPointerScanError(err)
    THEN IF AsPointerScanError(err)
         THEN report(UnexpectedGitObject(err), "unexpectedGitObject")
         ELSE pass("none")
    ELSE /\ cb' = [pass |-> "pointers", hasP |-> hasP, p |-> p, err |-> err,
                   verdict |-> "none"]
         /\ Exit(FatalStatus, "scan")
         /\ UNCHANGED <<out, corruptPointers>>

\* What the by-tree scanner can hand to the callback: a pointer, or an
\* error about the tree entry at a path of the scanned treeish.
TreeErrors ==
    { [kind |-> k, oid |-> end, path |-> nm] :
        k \in {"psErr"}, nm \in Names }
      \cup { [kind |-> "other", oid |-> "", path |-> ""] }

\* The by-tree scanner calls back; no filter is attached to this scanner.
ScanTree ==
    /\ pc = "scanTree"
    /\ n < MaxRecords
    /\ n' = n + 1
    /\ \/ \E p \in WrappedPointers : PointersFound(TRUE, p, NilError)
       \/ \E err \in TreeErrors : PointersFound(FALSE, NilPointer, err)
    /\ UNCHANGED <<argv, currentRefOk, scan, fs0, badDir0, fsckDryRun, fsckObjects, fsckPointers, useIndex, start, end,
                   ok, corruptOids, fs, badDir, i>>

\* Lines 195-201: ScanRefByTree or ScanRefRangeByTree returns an error.
ScanTreeFails ==
    /\ pc = "scanTree"
    /\ Exit(FatalStatus, "scan")
    /\ UNCHANGED <<argv, currentRefOk, scan, fs0, badDir0, fsckDryRun, fsckObjects, fsckPointers, useIndex, start, end,
                   ok, corruptOids, corruptPointers, fs, badDir, out, cb, n, i>>

\* Lines 194-205 and 88-90: the by-tree scan returns nil, the scanner is
\* closed and doFsckPointers returns.
PointersDone ==
    /\ pc = "scanTree"
    /\ ok' = (ok /\ Len(corruptPointers) = 0)
    /\ cb' = NoCallback
    /\ pc' = "decide"
    /\ scan' = NoScan
    /\ UNCHANGED <<argv, currentRefOk, fs0, badDir0, fsckDryRun, fsckObjects, fsckPointers, useIndex, start, end,
                   corruptOids, corruptPointers, fs, badDir, out,
                   exitCode, fatal, n, i>>

(***************************************************************************)
(* fsckCommand, lines 92-115                                               *)
(***************************************************************************)

\* tools.MkdirAll(badDir, cfg) fails when the path cannot be made a
\* directory.
MkdirAllFails(dir) == dir = "blocked"

\* Lines 92-106: the verdict of the run, and the start of the repair.
Decide ==
    /\ pc = "decide"
    /\ IF ok
       THEN /\ out' = Append(out, OkLine)
            /\ Exit(0, "none")
            /\ UNCHANGED badDir
       ELSE IF SkipRelocation(fsckDryRun, corruptOids)
       THEN /\ Exit(1, "none")
            /\ UNCHANGED <<out, badDir>>
       ELSE /\ out' = Append(out, RepairLine)
            /\ IF MkdirAllFails(badDir)
               THEN /\ Exit(FatalStatus, "mkdir")
                    /\ UNCHANGED badDir
               ELSE /\ badDir' = "dir"
                    /\ pc' = "rename"
                    /\ UNCHANGED <<exitCode, fatal>>
    /\ UNCHANGED <<argv, currentRefOk, scan, fs0, badDir0, fsckDryRun, fsckObjects, fsckPointers, useIndex, start, end,
                   ok, corruptOids, corruptPointers, fs, cb, n, i>>

\* A rename that never reports a failure.
RenameFailsNever(files, from) == FALSE

\* os.Rename(from, to) fails when from does not exist.
RenameFails(files, from) == files[from].kind = "absent"

\* A rename that copies the file and leaves the source in place.
OsRenameCopy(files, from, to) == [files EXCEPT ![to] = files[from]]

\* os.Rename(from, to): the file is at to and no longer at from.
OsRename(files, from, to) ==
    [files EXCEPT ![to] = files[from], ![from] = AbsentFile]

\* Lines 108-113: one iteration of the relocation loop.
Rename ==
    /\ pc = "rename"
    /\ i <= Len(corruptOids)
    /\ LET oid == corruptOids[i] IN
       IF RenameFails(fs, ObjectPathname(oid))
       THEN /\ Exit(FatalStatus, "rename")
            /\ UNCHANGED <<fs, i>>
       ELSE /\ fs' = OsRename(fs, ObjectPathname(oid), BadFile(oid))
            /\ i' = i + 1
            /\ UNCHANGED <<pc, exitCode, fatal>>
    /\ UNCHANGED <<argv, currentRefOk, scan, fs0, badDir0, fsckDryRun, fsckObjects, fsckPointers, useIndex, start, end,
                   ok, corruptOids, corruptPointers, badDir, out, cb, n>>

\* Line 114: the loop is over, the process exits with status 1.
RelocationDone ==
    /\ pc = "rename"
    /\ i > Len(corruptOids)
    /\ Exit(1, "none")
    /\ UNCHANGED <<argv, currentRefOk, scan, fs0, badDir0, fsckDryRun, fsckObjects, fsckPointers, useIndex, start, end,
                   ok, corruptOids, corruptPointers, fs, badDir, out, cb, n, i>>

Next ==
    \/ Resolve
    \/ ScanBlobs
    \/ ScanBlobsError
    \/ ScanBlobsFails
    \/ ScanRefDone
    \/ ObjectsDone
    \/ ScanTree
    \/ ScanTreeFails
    \/ PointersDone
    \/ Decide
    \/ Rename
    \/ RelocationDone

Spec == Init /\ [][Next]_vars

TypeOK ==
    /\ pc \in {"start", "scanRef", "scanIndex", "scanTree", "decide", "rename", "exit"}
    /\ exitCode \in {-1, 0, 1, FatalStatus}
    /\ n \in 0..MaxRecords
    /\ Len(corruptOids) <= MaxRecords

(***************************************************************************)
(* Properties                                                              *)
(***************************************************************************)
Range(s) == { s[k] : k \in 1..Len(s) }

Last(s) == s[Len(s)]

Scanning == pc \in {"scanRef", "scanIndex", "scanTree"}

\* The run ended without a fatal resolution, scan, read or mkdir error.
EndedAfterScans ==
    pc = "exit" /\ fatal \notin {"resolve", "scan", "read", "mkdir"}

\* The hashes whose store file this run moved to the quarantine directory.
Quarantined ==
    { h \in Oids : /\ fs0[ObjectPathname(h)] # AbsentFile
                   /\ fs[ObjectPathname(h)] = AbsentFile
                   /\ fs[BadFile(h)] = fs0[ObjectPathname(h)] }

\* C1: when resolution and all requested scans finish without a fatal scan
\* or read error (and the quarantine directory can be created), the exit
\* code is 0 iff no requested pass produced a finding, and 1 whenever a
\* finding was produced, relocation or not.
C1_ExitCodeContract ==
    EndedAfterScans =>
        /\ (exitCode = 0) <=> (Len(corruptOids) = 0 /\ Len(corruptPointers) = 0)
        /\ (Len(corruptOids) + Len(corruptPointers) > 0) => (exitCode = 1)

\* C2: with --dry-run no step of the run changes the files of the store or
\* of the quarantine directory, nor creates the quarantine directory.
C2_DryRunNeverMutates ==
    [][fsckDryRun => (fs' = fs /\ badDir' = badDir)]_vars

\* C2 witness: a dry run that found corrupt objects has ended.
C2_Witness ==
    /\ pc = "exit"
    /\ fsckDryRun
    /\ exitCode = 1
    /\ Len(corruptOids) > 0
    /\ \E h \in Range(corruptOids) : fs[ObjectPathname(h)].kind = "file"

\* C3: when a run without --dry-run found N distinct corrupt content hashes
\* and went on to relocation, then at its end exactly N files have moved to
\* the quarantine directory, one per corrupt hash, and none of them is still
\* at its store path.
C3_QuarantineCompleteness ==
    (EndedAfterScans /\ ~fsckDryRun /\ Len(corruptOids) > 0) =>
        /\ Cardinality(Quarantined) = Cardinality(Range(corruptOids))
        /\ \A h \in Range(corruptOids) :
             /\ fs[ObjectPathname(h)] = AbsentFile
             /\ h \in Quarantined

\* C4: a content hash is at most once in the corrupt-content-hash list.
C4_NoDuplicateCorruptOids ==
    \A a, b \in 1..Len(corruptOids) :
        a # b => corruptOids[a] # corruptOids[b]

\* C5: while the corrupt-object list is empty no step changes the store or
\* the quarantine directory, with or without --dry-run; and a run whose
\* passes completed with a pointer finding and no corrupt object exits 1.
C5_PointerOnlyNeverMutates ==
    [][ /\ (Len(corruptOids) = 0) => (fs' = fs /\ badDir' = badDir)
        /\ ( /\ pc' = "exit"
             /\ fatal' = "none"
             /\ Len(corruptPointers') > 0
             /\ Len(corruptOids') = 0 ) => (exitCode' = 1) ]_vars

\* C5 witness: a run without --dry-run ended with a pointer finding only.
C5_Witness ==
    /\ pc = "exit"
    /\ ~fsckDryRun
    /\ exitCode = 1
    /\ Len(corruptPointers) > 0
    /\ Len(corruptOids) = 0
    /\ badDir = "absent"

\* C6: a pointer whose store file cannot be opened is OK iff the path does
\* not exist and the declared size is 0; every other open failure is an
\* openError, its hash is appended to the corrupt list and the scan goes on.
C6_OpenFailureClassification ==
    ( /\ cb.pass = "objects"
      /\ cb.hasP
      /\ OsOpen(fs, ObjectPathname(cb.p.Oid)) # "nil" ) =>
        /\ (cb.verdict = "OK") <=>
             ( /\ OsOpen(fs, ObjectPathname(cb.p.Oid)) = "ENOENT"
               /\ cb.p.Size = 0 )
        /\ (cb.verdict # "OK") =>
             /\ cb.verdict = "openError"
             /\ Len(corruptOids) > 0
             /\ Last(corruptOids) = cb.p.Oid
             /\ pc \in {"scanRef", "scanIndex"}

\* C7: a store file that opens and is read completely is OK iff the digest
\* of the whole file equals the declared content hash; otherwise it is a
\* corruptObject and its hash is appended to the corrupt list.  The
\* declared size does not enter.
C7_HashCorrespondence ==
    ( /\ cb.pass = "objects"
      /\ cb.hasP
      /\ fs[ObjectPathname(cb.p.Oid)].kind = "file" ) =>
        LET data == fs[ObjectPathname(cb.p.Oid)].data IN
        /\ (cb.verdict = "OK") <=> (Sha256(data) = cb.p.Oid)
        /\ (Sha256(data) # cb.p.Oid) =>
             /\ cb.verdict = "corruptObject"
             /\ Len(corruptOids) > 0
             /\ Last(corruptOids) = cb.p.Oid

\* C7 witness: a file truncated below the declared size was found corrupt.
C7_Witness ==
    /\ cb.pass = "objects"
    /\ cb.verdict = "corruptObject"
    /\ cb.p.Size = 1
    /\ fs[ObjectPathname(cb.p.Oid)] = [kind |-> "file", data |-> <<>>]
    /\ Last(corruptOids) = cb.p.Oid

\* C8: the pointer pass reports a pointer as nonCanonicalPointer iff it is
\* not canonical, whatever the store holds for its hash; and the verdict of
\* the object pass on a pointer is the one fsckPointer gives for its name,
\* hash and size, canonical or not.
C8_CanonicalityIndependent ==
    /\ (cb.pass = "pointers" /\ cb.hasP) =>
         /\ (cb.verdict = "nonCanonicalPointer") <=> ~cb.p.Canonical
         /\ cb.p.Canonical => cb.verdict = "OK"
         /\ ~cb.p.Canonical =>
              /\ Len(corruptPointers) > 0
              /\ Last(corruptPointers).kind = "nonCanonicalPointer"
              /\ Last(corruptPointers).lfsOid = cb.p.Oid
              /\ Last(corruptPointers).blobOid = cb.p.Sha1
    /\ (cb.pass = "objects" /\ cb.hasP) =>
         /\ cb.verdict = fsckPointer(fs, cb.p.Name, cb.p.Oid, cb.p.Size).verdict
         /\ (cb.verdict \in {"openError", "corruptObject"}) =>
              (Len(corruptOids) > 0 /\ Last(corruptOids) = cb.p.Oid)

\* C8 witness: both passes ran, the object pass found a hash corrupt and the
\* pointer pass reports a non-canonical pointer to that same hash.
C8_Witness ==
    /\ pc = "scanTree"
    /\ fsckObjects
    /\ cb.pass = "pointers"
    /\ cb.verdict = "nonCanonicalPointer"
    /\ cb.p.Oid \in Range(corruptOids)

\* C9: the object pass runs iff --objects is set or neither flag is, the
\* pointer pass iff --pointers is set or neither flag is; a pass that was
\* not requested is never entered and leaves its list empty, and the run
\* then succeeds when the other pass has no finding.
C9_PassSelection ==
    [][ /\ (pc = "start" /\ pc' # "exit") =>
             /\ fsckObjects' = (fsckObjects \/ ~fsckPointers)
             /\ fsckPointers' = (fsckPointers \/ ~fsckObjects)
             /\ pc' = IF fsckObjects' THEN "scanRef" ELSE "scanTree"
        /\ (pc \in {"scanRef", "scanIndex"} /\ pc' \notin {"scanRef", "scanIndex", "exit"}) =>
             pc' = IF fsckPointers THEN "scanTree" ELSE "decide"
        /\ (pc' = "decide") => (pc \in {"scanRef", "scanIndex", "scanTree"})
        /\ (pc' \in {"scanRef", "scanIndex"}) => fsckObjects'
        /\ (pc' = "scanTree") => fsckPointers'
        /\ (pc' # "start" /\ ~fsckObjects') => (corruptOids' = <<>>)
        /\ (pc' # "start" /\ ~fsckPointers') => (corruptPointers' = <<>>)
        /\ (pc' = "exit" /\ fatal' = "none" /\ ~fsckObjects' /\ corruptPointers' = <<>>)
             => (exitCode' = 0)
        /\ (pc' = "exit" /\ fatal' = "none" /\ ~fsckPointers' /\ corruptOids' = <<>>)
             => (exitCode' = 0) ]_vars

\* C9 witness: with --pointers alone a run over a store that holds a
\* corrupt object ended with exit code 0.
C9_Witness ==
    /\ pc = "exit"
    /\ exitCode = 0
    /\ ~fsckObjects
    /\ n > 0
    /\ \E h \in Oids :
         /\ fs[ObjectPathname(h)].kind = "file"
         /\ Sha256(fs[ObjectPathname(h)].data) # h

\* C10: the object pass is never called back with a pointer whose path the
\* fetch-exclude filter matches, and a hash enters the corrupt list only
\* through a callback on a pointer with a path that is not excluded.
C10_ExclusionFilterRespected ==
    [][ /\ (cb'.pass = "objects" /\ cb'.hasP) =>
             (cb'.p.Name \notin FetchExcludePaths)
        /\ (cb'.pass = "filtered") =>
             (corruptOids' = corruptOids /\ out' = out)
        /\ (corruptOids' # corruptOids) =>
             /\ cb'.pass = "objects"
             /\ cb'.hasP
             /\ cb'.p.Name \notin FetchExcludePaths
             /\ corruptOids' = Append(corruptOids, cb'.p.Oid) ]_vars

\* C10 witness: the scanner met an excluded pointer whose store file is
\* absent and nothing was reported.
C10_Witness ==
    /\ cb.pass = "filtered"
    /\ cb.p.Name \in FetchExcludePaths
    /\ cb.p.Size = 1
    /\ fs[ObjectPathname(cb.p.Oid)] = AbsentFile
    /\ corruptOids = <<>>
    /\ out = <<>>

\* C11: a run without a finding in any requested pass prints the success
\* line and nothing else, exits 0 and leaves the store and the quarantine
\* directory as they were when it started (so a second run over the same
\* range starts from the same files and the same feed); and every run that
\* ends without a finding and without a fatal error is such a run.
C11_IdempotentSuccess ==
    /\ (pc = "exit" /\ exitCode = 0) =>
         /\ out = << OkLine >>
         /\ corruptOids = <<>>
         /\ corruptPointers = <<>>
         /\ fs = fs0
         /\ badDir = badDir0
    /\ ( /\ pc = "exit"
         /\ fatal = "none"
         /\ corruptOids = <<>>
         /\ corruptPointers = <<>> ) => (exitCode = 0)

\* C11 witness: a run of both passes over history and index ended clean
\* although the store holds no file for a size-0 pointer it checked.
C11_Witness ==
    /\ pc = "exit"
    /\ exitCode = 0
    /\ fsckObjects
    /\ fsckPointers
    /\ useIndex
    /\ n > 0
    /\ \E h \in Oids : fs[ObjectPathname(h)] = AbsentFile

\* C13: a read error on an opened object ends the run in the same step with
\* the fatal status: nothing is printed for the object, no success line is
\* printed, the pointer pass has not started, the files are as at the start,
\* and no step follows.
C13_ReadErrorAborts ==
    [][ /\ pc # "exit"
        /\ ( /\ cb'.pass = "objects"
             /\ cb'.hasP
             /\ n' # n
             /\ fs[ObjectPathname(cb'.p.Oid)].kind = "ioerr" ) =>
               /\ pc' = "exit"
               /\ exitCode' = FatalStatus
               /\ fatal' = "read"
               /\ out' = out
               /\ OkLine \notin Range(out')
               /\ corruptPointers' = <<>>
               /\ scan'.fn \in {"ScanRef", "ScanRefRange", "ScanIndex"}
               /\ fs' = fs0
               /\ badDir' = badDir0
        /\ (fatal' = "read") =>
               /\ cb'.pass = "objects"
               /\ fs[ObjectPathname(cb'.p.Oid)].kind = "ioerr" ]_vars

\* C13 witness: the second record of the object pass failed to be read
\* after the first one had been reported.
C13_Witness ==
    /\ pc = "exit"
    /\ fatal = "read"
    /\ n = 2
    /\ Len(out) = 1
    /\ fsckPointers

\* C12: every callback of the by-tree feed with a pointer that is not
\* canonical appends exactly one nonCanonicalPointer finding, every callback
\* with a PointerScanError appends exactly one unexpectedGitObject finding
\* with its tree hash and path, every other callback with an error and no
\* pointer aborts the run, and no callback with an error leaves the finding
\* list unchanged while the run continues.
C12_NoScanErrorSwallowed ==
    [][ (cb'.pass = "pointers" /\ n' # n) =>
          /\ (cb'.hasP /\ ~cb'.p.Canonical) =>
               /\ corruptPointers' =
                      Append(corruptPointers, NonCanonicalPointer(cb'.p))
               /\ pc' = pc
          /\ (~cb'.hasP /\ cb'.err.kind = "psErr") =>
               /\ corruptPointers' =
                      Append(corruptPointers, UnexpectedGitObject(cb'.err))
               /\ Last(corruptPointers').kind = "unexpectedGitObject"
               /\ Last(corruptPointers').treeOid = cb'.err.oid
               /\ Last(corruptPointers').path = cb'.err.path
               /\ pc' = pc
          /\ (~cb'.hasP /\ cb'.err.kind \notin {"nil", "psErr"}) =>
               /\ pc' = "exit"
               /\ exitCode' = FatalStatus
               /\ fatal' = "scan"
               /\ corruptPointers' = corruptPointers
          /\ (cb'.err.kind # "nil") =>
               \/ Len(corruptPointers') = Len(corruptPointers) + 1
               \/ pc' = "exit" ]_vars

\* C12 witness: the by-tree feed handed over a PointerScanError after a
\* pointer that is not canonical, and both findings are in the list.
C12_Witness ==
    /\ pc = "scanTree"
    /\ cb.pass = "pointers"
    /\ ~cb.hasP
    /\ cb.err.kind = "psErr"
    /\ Len(corruptPointers) = 2
    /\ corruptPointers[1].kind = "nonCanonicalPointer"
    /\ corruptPointers[2] = UnexpectedGitObject(cb.err)

\* C14: the decision is entered only from the return of the last requested
\* scan (the by-tree scan when the pointer pass runs, else the index scan
\* when useIndex, else the history scan), the index scan follows the history
\* scan, the quarantine directory and the store change only in the decision
\* and the relocation loop, an exit with 0 or 1 is taken only there, and
\* from the decision on no record is handled and no finding is added.
C14_VerificationBeforeRepair ==
    [][ /\ (pc' = "decide" /\ pc # "decide") =>
             /\ fsckPointers => pc = "scanTree"
             /\ (~fsckPointers /\ useIndex) => pc = "scanIndex"
             /\ (~fsckPointers /\ ~useIndex) => pc = "scanRef"
        /\ (pc' = "scanIndex" /\ pc # "scanIndex") => pc = "scanRef"
        /\ (pc' = "scanTree" /\ pc # "scanTree") =>
             \/ pc = "start" /\ ~fsckObjects'
             \/ pc = "scanIndex" /\ useIndex
             \/ pc = "scanRef" /\ ~useIndex
        /\ (fs' # fs \/ badDir' # badDir) => pc \in {"decide", "rename"}
        /\ (fs' # fs) => pc = "rename"
        /\ (pc' = "rename" /\ pc # "rename") => pc = "decide"
        /\ (pc' = "exit" /\ exitCode' \in {0, 1}) => pc \in {"decide", "rename"}
        /\ (pc \in {"decide", "rename"}) =>
             /\ n' = n
             /\ cb' = cb
             /\ corruptOids' = corruptOids
             /\ corruptPointers' = corruptPointers
             /\ pc' \in {"rename", "exit"} ]_vars

\* C14 witness: a run of both passes over history and index, with findings
\* of both passes, has moved a file.
C14_Witness ==
    /\ pc = "rename"
    /\ i > 1
    /\ useIndex
    /\ fsckObjects
    /\ fsckPointers
    /\ Len(corruptPointers) > 0
    /\ fs # fs0

\* C15: a rename whose source is missing ends the run in that step with the
\* fatal status, moves nothing, and no step follows it, so the hashes after
\* it are not attempted; a run that ended so did not exit with 1.
C15_RenameFailureFatal ==
    [][ /\ pc # "exit"
        /\ ( /\ pc = "rename"
             /\ i <= Len(corruptOids)
             /\ fs[ObjectPathname(corruptOids[i])].kind = "absent" ) =>
               /\ pc' = "exit"
               /\ fatal' = "rename"
               /\ exitCode' = FatalStatus
               /\ exitCode' # 1
               /\ fs' = fs
               /\ i' = i
        /\ (fatal' = "rename") =>
               /\ pc = "rename"
               /\ fs[ObjectPathname(corruptOids[i])].kind = "absent" ]_vars

\* C15 witness: the first rename failed and the second corrupt hash, whose
\* file is in the store, was not attempted.
C15_Witness ==
    /\ pc = "exit"
    /\ fatal = "rename"
    /\ i = 1
    /\ Len(corruptOids) = 2
    /\ fs[ObjectPathname(corruptOids[2])].kind = "file"
    /\ fs[BadFile(corruptOids[2])] = fs0[BadFile(corruptOids[2])]

\* The resolution of the scan range fails: git.CurrentRef fails in a run
\* without arguments, or a piece of the ref expression of a run with one
\* argument does not resolve.
ResolutionFails ==
    \/ Len(argv) = 0 /\ ~currentRefOk
    \/ Len(argv) = 1 /\ ResolveRefs(SplitN2(argv[1])).err

\* C16: a run whose current ref (zero arguments) or ref expression (one
\* argument) does not resolve ends at its first step with the fatal
\* status, and that is the only way to a resolution error; a run ended so
\* has opened no scan, handled no record, recorded and printed nothing and
\* left the files as they were.
C16_ResolutionErrorsAbort ==
    [][ /\ (pc = "start") => (ResolutionFails <=> (fatal' = "resolve"))
        /\ (fatal' = "resolve") =>
             /\ pc = "start"
             /\ pc' = "exit"
             /\ exitCode' = FatalStatus
             /\ scan' = NoScan
             /\ n' = 0
             /\ cb' = NoCallback
             /\ out' = <<>>
             /\ corruptOids' = <<>>
             /\ corruptPointers' = <<>>
             /\ fs' = fs0
             /\ badDir' = badDir0 ]_vars

\* C16 witness: a run without arguments has ended on the failure of
\* git.CurrentRef while the store holds a corrupt file.
C16_Witness ==
    /\ pc = "exit"
    /\ fatal = "resolve"
    /\ Len(argv) = 0
    /\ ~currentRefOk
    /\ \E h \in Oids : /\ fs[ObjectPathname(h)].kind = "file"
                       /\ Sha256(fs[ObjectPathname(h)].data) # h

\* The scan in progress is a ranged one.
Ranged == scan.fn \in {"ScanRefRange", "ScanRefRangeByTree"}

\* C17: after a successful resolution, zero arguments give useIndex, an
\* empty start and the current ref as end; one argument gives no index
\* scan and, for an expression with "..", the two resolved commits as start
\* and end, else an empty start and the resolved commit as end; end is
\* never empty, and a history scan is ranged exactly when start is not
\* empty and runs over start and end.
C17_ScanRangeResolution ==
    (pc # "start" /\ fatal # "resolve") =>
        /\ (Len(argv) = 0) =>
             /\ useIndex
             /\ start = ""
             /\ end = HeadSha
        /\ (Len(argv) = 1) =>
             /\ ~useIndex
             /\ LET pieces == SplitN2(argv[1]) IN
                IF Len(pieces) = 2
                THEN /\ start = ResolveRef(pieces[1])
                     /\ end = ResolveRef(pieces[2])
                     /\ start # ""
                ELSE /\ start = ""
                     /\ end = ResolveRef(pieces[1])
        /\ end # ""
        /\ (scan.fn \in {"ScanRef", "ScanRefRange",
                         "ScanRefByTree", "ScanRefRangeByTree"}) =>
             /\ Ranged <=> (start # "")
             /\ scan.from = start
             /\ scan.to = end

\* C17 witness: the by-tree scan of a two-ended expression is handling
\* records of the range.
C17_Witness ==
    /\ pc = "scanTree"
    /\ Len(argv) = 1
    /\ start = "c1"
    /\ end = HeadSha
    /\ scan.fn = "ScanRefRangeByTree"
    /\ n > 0

\* C20: the index is scanned only by the object pass of a run without
\* arguments, after its history scan; the scan of the pointer pass is the
\* by-tree scan of end or of start..end, and every pointer finding is made
\* by a callback of that scan.
C20_IndexOnlyInObjectPass ==
    [][ /\ (scan'.fn = "ScanIndex") =>
             /\ useIndex'
             /\ Len(argv) = 0
             /\ fsckObjects'
             /\ pc' \in {"scanIndex", "exit"}
             /\ pc \in {"scanRef", "scanIndex"}
        /\ (pc = "scanRef" /\ useIndex /\ pc' \notin {"scanRef", "exit"}) =>
             /\ pc' = "scanIndex"
             /\ scan' = IndexScan
        /\ (pc' = "scanTree") =>
             /\ scan'.fn \in {"ScanRefByTree", "ScanRefRangeByTree"}
             /\ scan'.from = start'
             /\ scan'.to = end'
        /\ (corruptPointers' # corruptPointers \/ cb'.pass = "pointers") =>
             /\ scan.fn \in {"ScanRefByTree", "ScanRefRangeByTree"}
             /\ scan' = scan ]_vars

\* C20 witness: a run without arguments whose object pass scanned the
\* index has a pointer finding from its by-tree scan of the current ref.
C20_Witness ==
    /\ useIndex
    /\ fsckObjects
    /\ cb.pass = "pointers"
    /\ Len(corruptPointers) > 0
    /\ scan = [fn |-> "ScanRefByTree", from |-> "", to |-> HeadSha]

\* The lines printed by fsckPointer, in order.
ObjectLines ==
    SelectSeq(out, LAMBDA l :
        l.text \in {"objects: openError", "objects: corruptObject"})

\* The lines printed by the callback of the pointer pass, in order.
PointerLines ==
    SelectSeq(out, LAMBDA l :
        l.text \in {"pointer: nonCanonicalPointer",
                    "pointer: unexpectedGitObject"})

\* C18: at every point of a run the lines of the object pass name, in
\* order, the entries of corruptOids, and the lines of the pointer pass
\* are, in order, the lines of the entries of corruptPointers.
C18_StreamingCompleteReporting ==
    /\ Len(ObjectLines) = Len(corruptOids)
    /\ \A k \in 1..Len(corruptOids) : ObjectLines[k].oid = corruptOids[k]
    /\ Len(PointerLines) = Len(corruptPointers)
    /\ \A k \in 1..Len(corruptPointers) :
           PointerLines[k] = PointerLine(corruptPointers[k])

\* The files of hash h are where they were when the run started.
Untouched(h) ==
    /\ fs[ObjectPathname(h)] = fs0[ObjectPathname(h)]
    /\ fs[BadFile(h)] = fs0[BadFile(h)]

\* C19 as stated: the quarantine directory is at most created, every hash
\* is either untouched or is a corrupt hash whose store file has moved to
\* a quarantine path at which there was no file, and the files of a hash
\* that is not in corruptOids are untouched.
C19_RelocationOnly ==
    /\ (badDir # badDir0) => (badDir = "dir")
    /\ \A h \in Oids :
         \/ Untouched(h)
         \/ /\ h \in Range(corruptOids)
            /\ fs0[ObjectPathname(h)] # AbsentFile
            /\ fs0[BadFile(h)] = AbsentFile
            /\ fs[ObjectPathname(h)] = AbsentFile
            /\ fs[BadFile(h)] = fs0[ObjectPathname(h)]

\* C19 amended: the quarantine directory is at most created, every hash is
\* either untouched or is a corrupt hash whose store file has moved to its
\* quarantine path, replacing what was there, and the files of a hash that
\* is not in corruptOids are untouched.
C19_RelocationReplaces ==
    /\ (badDir # badDir0) => (badDir = "dir" /\ badDir0 = "absent")
    /\ \A h \in Oids :
         \/ Untouched(h)
         \/ /\ h \in Range(corruptOids)
            /\ fs0[ObjectPathname(h)] # AbsentFile
            /\ fs[ObjectPathname(h)] = AbsentFile
            /\ fs[BadFile(h)] = fs0[ObjectPathname(h)]
    /\ \A h \in Oids : (h \notin Range(corruptOids)) => Untouched(h)

\* C19 witness: a run has moved a corrupt store file over the file an
\* earlier run had left at its quarantine path, and has left alone the store
\* file of another hash.
C19_Witness ==
    /\ pc = "exit"
    /\ exitCode = 1
    /\ \E h \in Oids :
         /\ fs0[BadFile(h)] = OldBadFile
         /\ fs[BadFile(h)] # OldBadFile
         /\ fs[BadFile(h)] = fs0[ObjectPathname(h)]
         /\ fs[ObjectPathname(h)] = AbsentFile
         /\ \E g \in Oids \ {h} :
              /\ fs[ObjectPathname(g)].kind = "file"
              /\ fs[ObjectPathname(g)] = fs0[ObjectPathname(g)]

====
